---- MODULE Spec2Model ----
(***************************************************************************)
(* TimedInput.py: timed_input(seconds, prompt, default) reads one line     *)
(* from stdin or returns `default` after `seconds` seconds.                *)
(*                                                                         *)
(* The model has one main thread (the caller and the body of timed_input), *)
(* one threading.Timer thread per call of the SIGTERM-timer path, the      *)
(* process-wide pending SIGTERM, the stdin stream (the file descriptor     *)
(* and the reader's buffer above it), stdout, and a discrete clock.        *)
(***************************************************************************)
EXTENDS Integers, Sequences, FiniteSets, TLC

\* ------------------------------------------------------------------ bounds
MaxCalls == 2      \* calls of timed_input the caller makes
MaxInput == 2      \* characters the environment writes to stdin
MaxTime == 2       \* clock ticks
MaxSeconds == 1    \* largest timeout a call is given

\* ------------------------------------------------------------------ values
NL == "\n"
Chars == {" ", "a", NL}
Whitespace == {" ", NL}

\* A Python value: None, a str, or (for a local) not bound yet.
None == [kind |-> "None", chars |-> <<>>]
Unset == [kind |-> "unset", chars |-> <<>>]
Str(s) == [kind |-> "str", chars |-> s]

Defaults == {None, Str(<<" ", "a">>)}
Prompts == {<<"?">>}
Seconds == 0..MaxSeconds

\* sys.platform of the host
Linux == <<"l", "i", "n", "u", "x">>
Darwin == <<"d", "a", "r", "w", "i", "n">>
Cygwin == <<"c", "y", "g", "w", "i", "n">>
Win32 == <<"w", "i", "n", "3", "2">>
Platforms == {Linux, Darwin, Cygwin, Win32}

\* ------------------------------------------------------------ pure helpers
\* `sub in s` on Python strings
Contains(s, sub) ==
    \E i \in 1..(Len(s) - Len(sub) + 1) : SubSeq(s, i, i + Len(sub) - 1) = sub

isWindows(p) == Contains(p, <<"w", "i", "n">>)

RECURSIVE lstrip(_)
lstrip(s) == IF s # <<>> /\ Head(s) \in Whitespace THEN lstrip(Tail(s)) ELSE s

RECURSIVE rstrip(_)
rstrip(s) ==
    IF s # <<>> /\ s[Len(s)] \in Whitespace THEN rstrip(SubSeq(s, 1, Len(s) - 1)) ELSE s

\* str.strip() that forgets the trailing side
stripLeftOnly(s) == lstrip(s)

\* str.strip()
strip(s) == rstrip(lstrip(s))

\* what the builtin input() does with the line it read: drop one trailing "\n"
inputLine(s) == IF s # <<>> /\ s[Len(s)] = NL THEN SubSeq(s, 1, Len(s) - 1) ELSE s

HasNL(s) == \E i \in 1..Len(s) : s[i] = NL
NLPos(s) == CHOOSE i \in 1..Len(s) : s[i] = NL /\ \A j \in 1..(i - 1) : s[j] # NL
\* readline(): the text up to and including the first line terminator
readline(s) == SubSeq(s, 1, NLPos(s))
\* a buffer that loses what follows the line it hands out
afterLineDropsRest(s) == <<>>

\* what stays in the buffer after readline()
afterLine(s) == SubSeq(s, NLPos(s) + 1, Len(s))

\* ------------------------------------------------------------------- state
VARIABLES
    platform,   \* sys.platform
    handler,    \* disposition of SIGTERM: "SIG_DFL" or "term_handler"
    nreg,       \* calls of signal.signal(SIGTERM, ...) made so far
    pc,         \* where the main thread is
    calls,      \* calls of timed_input started so far
    seconds, prompt, default,   \* arguments of the current call
    callStart,  \* clock value when the current call was entered
    avail,      \* a complete line was waiting on stdin when the call was entered
    waitUntil,  \* deadline of the current select()
    timer,      \* local `timer` of _windows_timed_input: 0 unbound, else the Timer
    text,       \* local `text` of _windows_timed_input
    line,       \* the raw line the current call's read consumed
    retval,     \* value of the return statement executed, while finally runs
    pendingExc, \* exception in flight while finally runs, "" if none
    raisedBy,   \* the Timers whose SIGTERM made term_handler raise in this call
    outcomes,   \* one record per call that has ended
    escaped,    \* exception raised in the caller's own code, "" if none
    tstate,     \* per Timer: "none", "waiting", "firing", "dead"
    finished,   \* per Timer: its `finished` event (set by cancel() and by run())
    tdeadline,  \* per Timer: clock value at which its wait times out
    sigPending, \* Timers whose SIGTERM is pending for the process
    fd,         \* bytes written to stdin's file descriptor, not yet read
    buf,        \* bytes read from the descriptor into sys.stdin's buffer
    eof,        \* the write end of stdin is closed
    typed,      \* characters written so far
    out,        \* stdout
    now         \* clock

vars == <<platform, handler, nreg, pc, calls, seconds, prompt, default, callStart, avail,
          waitUntil, timer, text, line, retval, pendingExc, raisedBy, outcomes,
          escaped, tstate, finished, tdeadline, sigPending, fd, buf, eof, typed,
          out, now>>

argVars == <<seconds, prompt, default, callStart, avail>>
localVars == <<timer, text, line, retval, pendingExc, raisedBy>>
timerVars == <<tstate, finished, tdeadline>>
stdinVars == <<fd, buf, eof, typed>>
procVars == <<platform, handler, nreg>>

Timers == 1..MaxCalls

Init ==
    /\ platform \in Platforms
    /\ handler = IF isWindows(platform) THEN "term_handler" ELSE "SIG_DFL"
    /\ nreg = IF isWindows(platform) THEN 1 ELSE 0
    /\ pc = "caller"
    /\ calls = 0
    /\ seconds = 0 /\ prompt = <<>> /\ default = None /\ callStart = 0
    /\ avail = FALSE
    /\ waitUntil = 0
    /\ timer = 0 /\ text = Unset /\ line = Unset
    /\ retval = [val |-> Unset, src |-> 0]
    /\ pendingExc = "" /\ raisedBy = {}
    /\ outcomes = <<>>
    /\ escaped = ""
    /\ tstate = [i \in Timers |-> "none"]
    /\ finished = [i \in Timers |-> FALSE]
    /\ tdeadline = [i \in Timers |-> 0]
    /\ sigPending = {}
    /\ fd = <<>> /\ buf = <<>> /\ eof = FALSE /\ typed = 0
    /\ out = <<>>
    /\ now = 0

\* The process runs Python code of the main thread.
Running == pc \notin {"terminated", "crashed"}

\* The main thread executes its next step at l. A tripped signal is handled
\* first: the interpreter runs the Python-level handler before the main
\* thread goes on, and a blocking call of the main thread is interrupted.
At(l) == pc = l /\ sigPending = {}

\* ------------------------------------------------------- end of a call
Outcome(how, v, e, ln, l, by) ==
    [how |-> how, val |-> v, exc |-> e, src |-> ln, sec |-> seconds,
     dflt |-> default, early |-> (now < callStart + seconds), line |-> l,
     by |-> by, avail |-> avail]

\* timed_input returns v to the caller from the return statement at line ln
EndReturn(v, ln, l) ==
    /\ outcomes' = Append(outcomes, Outcome("return", v, "", ln, l, raisedBy))
    /\ pc' = "caller"

\* exception e leaves timed_input; the caller has no handler for it
EndRaiseBy(e, by) ==
    /\ outcomes' = Append(outcomes, Outcome("raise", Unset, e, 0, line, by))
    /\ pc' = "crashed"

EndRaise(e) == EndRaiseBy(e, raisedBy)

\* ------------------------------------------------------------ timed_input
\* lines 39-42: the implementation a call runs
timed_input == IF isWindows(platform) THEN "w_print" ELSE "u_print"

Call ==
    /\ At("caller")
    /\ calls < MaxCalls
    /\ calls' = calls + 1
    /\ \E s \in Seconds, p \in Prompts, d \in Defaults :
          /\ seconds' = s
          /\ prompt' = p
          /\ default' = d
    /\ callStart' = now
    /\ avail' = HasNL(buf \o fd)
    /\ pc' = timed_input
    /\ timer' = 0 /\ text' = Unset /\ line' = Unset
    /\ retval' = [val |-> Unset, src |-> 0]
    /\ pendingExc' = "" /\ raisedBy' = {}
    /\ UNCHANGED <<procVars, waitUntil, outcomes, escaped, timerVars, sigPending,
                   stdinVars, out, now>>

\* ----------------------------------------------------------- stdin stream
\* One read() of the descriptor moves what is there into the reader's buffer.
\* It is only issued while the buffer holds no complete line.
StdinFill ==
    /\ ~HasNL(buf)
    /\ fd # <<>>
    /\ buf' = buf \o fd
    /\ fd' = <<>>
    /\ UNCHANGED <<eof, typed>>

\* The buffer holds a complete line.
LineReady == HasNL(buf)
\* End of stream: nothing more can arrive and no line terminator was seen.
AtEOF == ~HasNL(buf) /\ fd = <<>> /\ eof

\* ------------------------------------------------- _windows_timed_input
\* line 85
WPrint ==
    /\ At("w_print")
    /\ out' = Append(out, <<"WARNING", seconds>>)
    /\ pc' = "w_start"
    /\ UNCHANGED <<procVars, calls, argVars, waitUntil, localVars, outcomes, escaped,
                   timerVars, sigPending, stdinVars, now>>

\* lines 49-56: Timer(seconds, thread_target).start()
startThread(i) ==
    /\ tstate' = [tstate EXCEPT ![i] = "waiting"]
    /\ finished' = [finished EXCEPT ![i] = FALSE]
    /\ tdeadline' = [tdeadline EXCEPT ![i] = now + seconds]

WStart ==
    /\ At("w_start")
    /\ startThread(calls)
    /\ pc' = "w_bind"
    /\ UNCHANGED <<procVars, calls, argVars, waitUntil, localVars, outcomes, escaped,
                   sigPending, stdinVars, out, now>>

\* lines 57 and 86: `return t`, and the result is bound to the local `timer`
WBind ==
    /\ At("w_bind")
    /\ timer' = calls
    /\ pc' = "w_prompt"
    /\ UNCHANGED <<procVars, calls, argVars, waitUntil, text, line, retval, pendingExc,
                   raisedBy, outcomes, escaped, timerVars, sigPending, stdinVars, out,
                   now>>

\* line 87: input(prompt) first writes the prompt
WPrompt ==
    /\ At("w_prompt")
    /\ out' = Append(out, <<"PROMPT", prompt>>)
    /\ pc' = "w_read"
    /\ UNCHANGED <<procVars, calls, argVars, waitUntil, localVars, outcomes, escaped,
                   timerVars, sigPending, stdinVars, now>>

\* line 87: input(prompt) blocked in a read of stdin
WReadFill ==
    /\ At("w_read")
    /\ StdinFill
    /\ UNCHANGED <<procVars, pc, calls, argVars, waitUntil, localVars, outcomes,
                   escaped, timerVars, sigPending, out, now>>

\* what `text = input(prompt)` binds for the raw line l
windowsText(l) == Str(inputLine(l))

\* line 87: input(prompt) returns a line
WReadLine ==
    /\ At("w_read")
    /\ LineReady
    /\ line' = Str(readline(buf))
    /\ text' = windowsText(readline(buf))
    /\ buf' = afterLine(buf)
    /\ pc' = "w_return"
    /\ UNCHANGED <<procVars, calls, argVars, waitUntil, timer, retval, pendingExc,
                   raisedBy, outcomes, escaped, timerVars, sigPending, fd, eof, typed,
                   out, now>>

\* line 87: input(prompt) at end of stream: the unterminated rest, or EOFError
WReadEOF ==
    /\ At("w_read")
    /\ AtEOF
    /\ IF buf = <<>>
          THEN /\ pendingExc' = "EOFError"
               /\ pc' = "w_finally"
               /\ UNCHANGED <<text, line, buf>>
          ELSE /\ line' = Str(buf)
               /\ text' = windowsText(buf)
               /\ buf' = <<>>
               /\ pc' = "w_return"
               /\ UNCHANGED pendingExc
    /\ UNCHANGED <<procVars, calls, argVars, waitUntil, timer, retval, raisedBy,
                   outcomes, escaped, timerVars, sigPending, fd, eof, typed, out, now>>

\* line 88: return text (the finally block runs before the function returns)
WReturn ==
    /\ At("w_return")
    /\ retval' = [val |-> text, src |-> 88]
    /\ pc' = "w_finally"
    /\ UNCHANGED <<procVars, calls, argVars, waitUntil, timer, text, line, pendingExc,
                   raisedBy, outcomes, escaped, timerVars, sigPending, stdinVars, out,
                   now>>

\* lines 89-90: except _InputTimeoutError: return default
WExcept ==
    /\ At("w_except")
    /\ retval' = [val |-> default, src |-> 90]
    /\ pc' = "w_finally"
    /\ UNCHANGED <<procVars, calls, argVars, waitUntil, timer, text, line, pendingExc,
                   raisedBy, outcomes, escaped, timerVars, sigPending, stdinVars, out,
                   now>>

\* Timer.cancel(): sets the Timer's `finished` event, nothing else
cancel(i) == finished' = [finished EXCEPT ![i] = TRUE]

\* lines 91-93: finally: timer.cancel()
WFinally ==
    /\ At("w_finally")
    /\ IF timer = 0
          THEN /\ EndRaise("UnboundLocalError")
               /\ UNCHANGED finished
          ELSE /\ cancel(timer)
               /\ pc' = "w_exit"
               /\ UNCHANGED outcomes
    /\ UNCHANGED <<procVars, calls, argVars, waitUntil, localVars, escaped, tstate,
                   tdeadline, sigPending, stdinVars, out, now>>

\* end of the finally block: the return, or the exception in flight, takes effect
WExit ==
    /\ At("w_exit")
    /\ IF pendingExc # ""
          THEN EndRaise(pendingExc)
          ELSE EndReturn(retval.val, retval.src, line)
    /\ UNCHANGED <<procVars, calls, argVars, waitUntil, localVars, escaped, timerVars,
                   sigPending, stdinVars, out, now>>

\* ---------------------------------------------------- _unix_timed_input
\* lines 116-118, and the entry of select() on line 120, which fixes its deadline
UPrint ==
    /\ At("u_print")
    /\ out' = out \o << <<"WARNING", seconds>>, <<"PROMPT", prompt>> >>
    /\ waitUntil' = now + seconds
    /\ pc' = "u_select"
    /\ UNCHANGED <<procVars, calls, argVars, localVars, outcomes, escaped, timerVars,
                   sigPending, stdinVars, now>>

\* a select() that reports waiting bytes only, not the end of the stream
selectReadyBytesOnly == fd # <<>>

\* select([sys.stdin], [], [], seconds) looks at the descriptor, not at the
\* reader's buffer: readable when bytes are waiting or the stream has ended
selectReady == fd # <<>> \/ eof

\* lines 120-121: select reports stdin readable
USelectReady ==
    /\ At("u_select")
    /\ selectReady
    /\ pc' = "u_readline"
    /\ UNCHANGED <<procVars, calls, argVars, waitUntil, localVars, outcomes, escaped,
                   timerVars, sigPending, stdinVars, out, now>>

\* the value line 124 returns
unixDefault == default

\* lines 120, 123-124: select's timeout elapses with nothing readable
USelectTimeout ==
    /\ At("u_select")
    /\ ~selectReady
    /\ now >= waitUntil
    /\ EndReturn(unixDefault, 124, line)
    /\ UNCHANGED <<procVars, calls, argVars, waitUntil, localVars, escaped, timerVars,
                   sigPending, stdinVars, out, now>>

\* line 122: readline() blocked in a read of stdin
UReadFill ==
    /\ At("u_readline")
    /\ StdinFill
    /\ UNCHANGED <<procVars, pc, calls, argVars, waitUntil, localVars, outcomes,
                   escaped, timerVars, sigPending, out, now>>

\* the value line 122 returns for the raw line l
unixText(l) == Str(strip(l))

\* line 122: readline() returns a line
UReadLine ==
    /\ At("u_readline")
    /\ LineReady
    /\ line' = Str(readline(buf))
    /\ buf' = afterLine(buf)
    /\ EndReturn(unixText(readline(buf)), 122, Str(readline(buf)))
    /\ UNCHANGED <<procVars, calls, argVars, waitUntil, timer, text, retval,
                   pendingExc, raisedBy, escaped, timerVars, sigPending, fd, eof,
                   typed, out, now>>

\* line 122: readline() at end of stream returns the unterminated rest
UReadEOF ==
    /\ At("u_readline")
    /\ AtEOF
    /\ line' = Str(buf)
    /\ buf' = <<>>
    /\ EndReturn(unixText(buf), 122, Str(buf))
    /\ UNCHANGED <<procVars, calls, argVars, waitUntil, timer, text, retval,
                   pendingExc, raisedBy, escaped, timerVars, sigPending, fd, eof,
                   typed, out, now>>

\* ------------------------------------------------- threading.Timer thread
\* Timer.run(): self.finished.wait(self.interval) timed out and the event is
\* not set, so the function will be called
TimerExpire(i) ==
    /\ Running
    /\ tstate[i] = "waiting"
    /\ ~finished[i]
    /\ now >= tdeadline[i]
    /\ tstate' = [tstate EXCEPT ![i] = "firing"]
    /\ UNCHANGED <<procVars, pc, calls, argVars, waitUntil, localVars, outcomes,
                   escaped, finished, tdeadline, sigPending, stdinVars, out, now>>

\* Timer.run(): the wait ended because cancel() set the event; the thread ends
TimerCancelled(i) ==
    /\ Running
    /\ tstate[i] = "waiting"
    /\ finished[i]
    /\ tstate' = [tstate EXCEPT ![i] = "dead"]
    /\ UNCHANGED <<procVars, pc, calls, argVars, waitUntil, localVars, outcomes,
                   escaped, finished, tdeadline, sigPending, stdinVars, out, now>>

\* os.kill(pid, signal.SIGTERM) from Timer i. On win32 os.kill with a signal
\* other than CTRL_C_EVENT and CTRL_BREAK_EVENT is TerminateProcess; elsewhere
\* SIGTERM becomes pending and its disposition decides.
kill(i) ==
    IF platform = Win32 \/ handler = "SIG_DFL"
        THEN /\ pc' = "terminated"
             /\ UNCHANGED sigPending
        ELSE /\ sigPending' = sigPending \cup {i}
             /\ UNCHANGED pc

\* lines 52-53: thread_target runs, then Timer.run() sets `finished` and ends
TimerFire(i) ==
    /\ Running
    /\ tstate[i] = "firing"
    /\ kill(i)
    /\ tstate' = [tstate EXCEPT ![i] = "dead"]
    /\ finished' = [finished EXCEPT ![i] = TRUE]
    /\ UNCHANGED <<procVars, calls, argVars, waitUntil, localVars, outcomes, escaped,
                   tdeadline, stdinVars, out, now>>

\* ------------------------------------------------------------ term_handler
TryBlock == {"w_print", "w_start", "w_bind", "w_prompt", "w_read", "w_return"}

\* lines 13-14: the interpreter runs term_handler in the main thread, between
\* two of its instructions or inside an interrupted blocking call; the
\* handler raises _InputTimeoutError there.
term_handler ==
    /\ Running
    /\ handler = "term_handler"
    /\ sigPending # {}
    /\ sigPending' = {}
    /\ CASE pc \in TryBlock ->
              \* inside try: the except clause of line 89 takes it
              /\ pc' = "w_except"
              /\ raisedBy' = raisedBy \cup sigPending
              /\ UNCHANGED <<pendingExc, outcomes, escaped>>
         [] pc = "w_except" ->
              \* inside the except clause: finally runs, then it propagates
              /\ pc' = "w_finally"
              /\ pendingExc' = "_InputTimeoutError"
              /\ raisedBy' = raisedBy \cup sigPending
              /\ UNCHANGED <<outcomes, escaped>>
         [] pc \in {"w_finally", "w_exit"} ->
              \* inside the finally block: it leaves the function
              /\ EndRaiseBy("_InputTimeoutError", raisedBy \cup sigPending)
              /\ UNCHANGED <<pendingExc, raisedBy, escaped>>
         [] pc = "caller" ->
              \* in the caller's code
              /\ escaped' = "_InputTimeoutError"
              /\ pc' = "crashed"
              /\ UNCHANGED <<pendingExc, raisedBy, outcomes>>
    /\ UNCHANGED <<procVars, calls, argVars, waitUntil, timer, text, line, retval,
                   timerVars, stdinVars, out, now>>

\* ------------------------------------------------------------- environment
\* the user (or the writer of a pipe) writes one character to stdin
Type(c) ==
    /\ Running
    /\ ~eof
    /\ typed < MaxInput
    /\ fd' = Append(fd, c)
    /\ typed' = typed + 1
    /\ UNCHANGED <<procVars, pc, calls, argVars, waitUntil, localVars, outcomes,
                   escaped, timerVars, sigPending, buf, eof, out, now>>

\* the write end of stdin is closed
Close ==
    /\ Running
    /\ ~eof
    /\ eof' = TRUE
    /\ UNCHANGED <<procVars, pc, calls, argVars, waitUntil, localVars, outcomes,
                   escaped, timerVars, sigPending, fd, buf, typed, out, now>>

\* time passes
Tick ==
    /\ Running
    /\ now < MaxTime
    /\ now' = now + 1
    /\ UNCHANGED <<procVars, pc, calls, argVars, waitUntil, localVars, outcomes,
                   escaped, timerVars, sigPending, stdinVars, out>>

Next ==
    \/ Call
    \/ WPrint \/ WStart \/ WBind \/ WPrompt
    \/ WReadFill \/ WReadLine \/ WReadEOF
    \/ WReturn \/ WExcept \/ WFinally \/ WExit
    \/ UPrint \/ USelectReady \/ USelectTimeout
    \/ UReadFill \/ UReadLine \/ UReadEOF
    \/ \E i \in Timers : TimerExpire(i)
    \/ \E i \in Timers : TimerCancelled(i)
    \/ \E i \in Timers : TimerFire(i)
    \/ term_handler
    \/ \E c \in Chars : Type(c)
    \/ Close
    \/ Tick

Spec == Init /\ [][Next]_vars

\* The readiness-polling path alone: a host whose sys.platform has no "win"
InitUnix == Init /\ ~isWindows(platform)

NextUnix ==
    \/ Call
    \/ UPrint \/ USelectReady \/ USelectTimeout
    \/ UReadFill \/ UReadLine \/ UReadEOF
    \/ \E c \in Chars : Type(c)
    \/ Close
    \/ Tick

SpecUnix == InitUnix /\ [][NextUnix]_vars

\* ------------------------------------------------------------------ claims
Ended == 1..Len(outcomes)

AllWhite(s) == \A i \in 1..Len(s) : s[i] \in Whitespace

\* s is l without its leading and trailing whitespace
Stripped(l, s) ==
    /\ s = <<>> \/ (s[1] \notin Whitespace /\ s[Len(s)] \notin Whitespace)
    /\ \E i \in 0..Len(l) :
          /\ i + Len(s) <= Len(l)
          /\ AllWhite(SubSeq(l, 1, i))
          /\ SubSeq(l, i + 1, i + Len(s)) = s
          /\ AllWhite(SubSeq(l, i + Len(s) + 1, Len(l)))

\* l is one line: at most one line terminator, and only as its last character
OneLine(l) == \A i \in 1..(Len(l) - 1) : l[i] # NL

\* C1: on the SIGTERM-timer path, a call whose `return text` (line 88) takes
\* effect returns the line that was read with its leading and trailing
\* whitespace removed.
C1_WindowsReturnsStripped ==
    \A k \in Ended :
        (outcomes[k].src = 88 /\ HasNL(outcomes[k].line.chars)) =>
            /\ outcomes[k].val.kind = "str"
            /\ Stripped(outcomes[k].line.chars, outcomes[k].val.chars)

\* C2: on the select() path, a call returns straight from select() (the
\* default, line 124) only when stdin is not readable; once select() has
\* reported stdin readable, the call leaves readline() having consumed exactly
\* one line from the head of stdin's buffer, and returns to the caller that
\* line without its leading and trailing whitespace and without its line
\* terminator, whatever the default is.
C2_UnixReadyReturnsStrippedLine ==
    [][/\ (pc = "u_select" /\ pc' # "u_select" /\ (fd # <<>> \/ eof)) =>
              (pc' = "u_readline" /\ outcomes' = outcomes)
       /\ (pc = "u_readline" /\ pc' # "u_readline") =>
          /\ pc' = "caller"
          /\ Len(outcomes') = Len(outcomes) + 1
          /\ Len(buf') < Len(buf) \/ (buf = <<>> /\ eof)
          /\ LET o == outcomes'[Len(outcomes')]
                 l == SubSeq(buf, 1, Len(buf) - Len(buf'))
             IN  /\ buf = l \o buf'
                 /\ OneLine(l)
                 /\ HasNL(l) \/ buf' = <<>>
                 /\ o.how = "return"
                 /\ o.src = 122
                 /\ o.val.kind = "str"
                 /\ Stripped(l, o.val.chars)
                 /\ ~HasNL(o.val.chars)]_vars

\* C2 witness: select reported stdin readable, a line holding "a" and
\* whitespace was read and the call returned "a" alone, not the default.
C2_Witness ==
    \E k \in Ended :
        /\ outcomes[k].src = 122
        /\ outcomes[k].line.chars # outcomes[k].val.chars
        /\ outcomes[k].val = Str(<<"a">>)
        /\ outcomes[k].val # outcomes[k].dflt

\* C3: while nothing has ever arrived on stdin, the process is not ended
\* by an error and every call that has ended returned its default value
\* itself.
C3_TimeoutReturnsDefault ==
    (typed = 0 /\ ~eof) =>
        /\ Running
        /\ \A k \in Ended :
              /\ outcomes[k].how = "return"
              /\ outcomes[k].val = outcomes[k].dflt

\* C4: on the SIGTERM-timer path, a call whose read has consumed a line
\* returns the text of that line, never the default and never an error.
C4_ReadTextNeverDiscarded ==
    \A k \in Ended :
        (isWindows(platform) /\ outcomes[k].line # Unset) =>
            /\ outcomes[k].how = "return"
            /\ outcomes[k].val \in {Str(inputLine(outcomes[k].line.chars)),
                                    Str(strip(outcomes[k].line.chars))}

\* Timer i can still deliver SIGTERM: it is about to call os.kill, or waits
\* uncancelled, or its SIGTERM is pending
TimerCanSignal(i) ==
    \/ tstate[i] = "firing"
    \/ tstate[i] = "waiting" /\ ~finished[i]
    \/ i \in sigPending

\* C5: once a call has ended (returned or raised), the Timer it started
\* can no longer deliver SIGTERM to the process.
C5_NoTimerOutlivesCall ==
    \A k \in Ended : ~TimerCanSignal(k)

\* C6: _InputTimeoutError never leaves timed_input and is never raised in
\* the caller's own code.
C6_TimeoutErrorNeverSurfaces ==
    /\ escaped # "_InputTimeoutError"
    /\ \A k \in Ended : outcomes[k].exc # "_InputTimeoutError"

\* The main thread is inside a read of stdin that only more input can end:
\* no complete line and no end of stream, and no timeout left to wake it.
BlockedOnStdin ==
    /\ ~HasNL(buf \o fd)
    /\ ~eof
    /\ \/ pc = "u_readline"
       \/ pc = "w_read" /\ ~TimerCanSignal(calls)

\* C7: when no complete line has arrived, the calling thread is never
\* left blocked on stdin after the call's deadline has passed (it returns the
\* default instead), also when part of a line has arrived.
C7_NeverBlockedPastDeadline ==
    ~(BlockedOnStdin /\ now > callStart + seconds)

\* C8: a call with seconds = 0 entered while a complete line is waiting on
\* stdin returns that line, stripped.
C8_ZeroTimeoutReturnsWaitingLine ==
    \A k \in Ended :
        (outcomes[k].sec = 0 /\ outcomes[k].avail) =>
            /\ outcomes[k].how = "return"
            /\ outcomes[k].line # Unset
            /\ outcomes[k].val.kind = "str"
            /\ Stripped(outcomes[k].line.chars, outcomes[k].val.chars)

\* C9: a call whose read consumed an empty line returns the empty string.
C9_EmptyLineYieldsEmptyString ==
    \A k \in Ended :
        outcomes[k].line = Str(<<NL>>) =>
            /\ outcomes[k].how = "return"
            /\ outcomes[k].val = Str(<<>>)

\* C10: a second call that consumes no input ends by returning its default,
\* and if term_handler ended its wait, the SIGTERM came from its own Timer
\* alone.
C10_SecondCallTimesOutOnItsOwn ==
    \A k \in Ended :
        (k > 1 /\ outcomes[k].line = Unset) =>
            /\ outcomes[k].how = "return"
            /\ outcomes[k].val = outcomes[k].dflt
            /\ outcomes[k].by \subseteq {k}

\* C11: a call that returns its default (line 90 or line 124) does so no
\* earlier than `seconds` after it was entered.
C11_DefaultOnlyAfterDeadline ==
    \A k \in Ended :
        (outcomes[k].how = "return" /\ outcomes[k].src \in {90, 124}) =>
            ~outcomes[k].early

\* entries 2k-1 and 2k of stdout are call k's warning line and its prompt
EmittedBoth(k) ==
    /\ Len(out) >= 2 * k
    /\ out[2 * k - 1][1] = "WARNING"
    /\ out[2 * k - 1][2] = outcomes[k].sec
    /\ out[2 * k][1] = "PROMPT"
    /\ out[2 * k][2] \in Prompts

\* C12: as long as every call so far has returned, each of them has written
\* exactly its warning line and then its prompt, in this order, and a call
\* that is waiting for input has already written both.
C12_WarningThenPromptBeforeWaiting ==
    /\ (\A k \in Ended : outcomes[k].how = "return") =>
           \A k \in Ended : EmittedBoth(k)
    /\ (pc \in {"u_select", "u_readline", "w_read"}
            /\ \A k \in Ended : outcomes[k].how = "return") =>
           Len(out) = 2 * calls

WindowsPath == {"w_print", "w_start", "w_bind", "w_prompt", "w_read", "w_return",
                "w_except", "w_finally", "w_exit"}
UnixPath == {"u_print", "u_select", "u_readline"}

\* C13: only a Windows host (sys.platform "win32") takes the SIGTERM-timer
\* path; on every other host no SIGTERM handler is installed, no Timer is
\* ever started and calls run the select() path.
C13_TimerPathOnlyOnWindows ==
    /\ platform = Win32 => pc \notin UnixPath
    /\ platform # Win32 =>
          /\ handler = "SIG_DFL"
          /\ \A i \in Timers : tstate[i] = "none"
          /\ pc \notin WindowsPath

\* C14: the SIGTERM handler is registered at most once, no step of a call
\* registers or replaces it, and every os.kill of a Timer leaves the process
\* running with exactly that one SIGTERM pending for term_handler (it is not
\* lost, and not merged with another Timer's).
C14_OneRegistrationOneDelivery ==
    [][/\ nreg <= 1
       /\ nreg' = nreg
       /\ handler' = handler
       /\ \A i \in Timers :
             (tstate[i] = "firing" /\ tstate'[i] = "dead") =>
                 /\ pc' # "terminated"
                 /\ sigPending = {}
                 /\ sigPending' = {i}]_vars

\* the bytes of stdin not yet consumed by any call, in order
Stream == buf \o fd

\* C15: on the select() path stdin is consumed first in, first out and only
\* by a call that returns input: writing appends to the stream; a call that
\* leaves readline() has removed exactly one line, the one it reports, from
\* the head of the stream; a call that returns from select() (timeout) has
\* read nothing, descriptor and buffer are as they were; no other step changes
\* the order or the content of what is unread.
C15_OneLineConsumedInOrder ==
    [][IF typed' # typed
          THEN /\ Len(Stream') = Len(Stream) + 1
               /\ SubSeq(Stream', 1, Len(Stream)) = Stream
          ELSE IF pc = "u_readline" /\ pc' = "caller"
          THEN LET o == outcomes'[Len(outcomes')]
               IN  /\ o.line.kind = "str"
                   /\ OneLine(o.line.chars)
                   /\ HasNL(o.line.chars) \/ Stream' = <<>>
                   /\ Stream = o.line.chars \o Stream'
          ELSE /\ Stream' = Stream
               /\ (pc = "u_select" /\ pc' = "caller") =>
                     /\ buf' = buf /\ fd' = fd
                     /\ outcomes'[Len(outcomes')].line = Unset]_vars

\* C15 witness: an empty line and then "a" were written; the first call
\* consumed the empty line alone and the second call got "a".
C15_Witness ==
    /\ Len(outcomes) = 2
    /\ outcomes[1].line = Str(<<NL>>)
    /\ outcomes[2].line = Str(<<"a">>)
    /\ typed = 2

\* C16: on the select() path, a call entered while a complete unread line is
\* waiting on stdin (in the descriptor or in the reader's buffer) returns
\* that line, never the default.
C16_WaitingLineIsReturned ==
    \A k \in Ended :
        (~isWindows(platform) /\ outcomes[k].avail) =>
            /\ outcomes[k].how = "return"
            /\ outcomes[k].src = 122
            /\ outcomes[k].line.kind = "str"
            /\ HasNL(outcomes[k].line.chars)

\* C17: on the select() path, when stdin is at end of stream with nothing
\* unread (no byte in the descriptor or in the buffer), select() does not
\* time out but hands over to readline(), and the call then returns the
\* empty string to the caller: no exception, and not the default.
C17_EndOfStreamYieldsEmptyString ==
    [][(eof /\ Stream = <<>> /\ pc' # pc) =>
          /\ pc = "u_select" => (pc' = "u_readline" /\ outcomes' = outcomes)
          /\ pc = "u_readline" =>
                /\ pc' = "caller"
                /\ Len(outcomes') = Len(outcomes) + 1
                /\ LET o == outcomes'[Len(outcomes')]
                   IN  /\ o.how = "return"
                       /\ o.val = Str(<<>>)
                       /\ o.val # o.dflt
                       /\ o.exc = ""]_vars

\* C17 witness: stdin was closed before anything was written, and a call
\* has returned the empty string from readline().
C17_Witness ==
    /\ typed = 0
    /\ eof
    /\ \E k \in Ended :
          /\ outcomes[k].src = 122
          /\ outcomes[k].line = Str(<<>>)
          /\ outcomes[k].val = Str(<<>>)
          /\ outcomes[k].val # outcomes[k].dflt

\* ------------------------------------------ failures inside the try block
\* line 85: print() fails (stdout is closed or a broken pipe); nothing has
\* been bound yet and the finally block runs
WPrintFail ==
    /\ At("w_print")
    /\ pendingExc' = "OSError"
    /\ pc' = "w_finally"
    /\ UNCHANGED <<procVars, calls, argVars, waitUntil, timer, text, line, retval,
                   raisedBy, outcomes, escaped, timerVars, sigPending, stdinVars, out,
                   now>>

\* line 86: _startThread fails (Timer.start() cannot start a new thread);
\* `timer` stays unbound and the finally block runs
WStartFail ==
    /\ At("w_start")
    /\ pendingExc' = "RuntimeError"
    /\ pc' = "w_finally"
    /\ UNCHANGED <<procVars, calls, argVars, waitUntil, timer, text, line, retval,
                   raisedBy, outcomes, escaped, timerVars, sigPending, stdinVars, out,
                   now>>

NextFail == Next \/ WPrintFail \/ WStartFail

\* the program with failing output and failing thread creation
SpecFail == Init /\ [][NextFail]_vars

\* an error other than the timeout signal is in flight in the finally block
OtherErrorInFlight ==
    /\ pc \in {"w_finally", "w_exit"}
    /\ pendingExc \notin {"", "_InputTimeoutError"}

\* C18: when an error other than the timeout signal was raised inside the
\* try block, the finally block's timer.cancel() completes (it sets the
\* call's Timer `finished` and raises nothing), and the call then ends by
\* raising that same error to the caller, not by returning a value.
C18_CleanupKeepsOriginalError ==
    [][(OtherErrorInFlight /\ pc' # pc) =>
          IF pc = "w_finally"
             THEN /\ pc' = "w_exit"
                  /\ pendingExc' = pendingExc
                  /\ timer # 0
                  /\ finished'[timer]
             ELSE /\ pc' = "crashed"
                  /\ LET o == outcomes'[Len(outcomes')]
                     IN  /\ o.how = "raise"
                         /\ o.exc = pendingExc]_vars

====
